---------------------------- MODULE Spec2Model ----------------------------
(***************************************************************************)
(* RemoteConnection (nuclide-remote-connection): the connection factory    *)
(* findOrCreate, reconnect with its saved-configuration fallback, the      *)
(* initialize / close lifecycle of a connection and the did-add /          *)
(* did-close notifications.                                                *)
(*                                                                         *)
(* Every `await` of the source is a step boundary: an action is the code   *)
(* that runs between two suspension points of one asynchronous call.       *)
(* ServerConnection (the session provider) lives in another file of the    *)
(* package; its operations follow the specification's description of the   *)
(* session provider and of the connection registry.                        *)
(*                                                                         *)
(* Strings are sequences of tokens, so that String.startsWith, extname,    *)
(* dirname and resolve are computed and not assumed.                       *)
(***************************************************************************)
EXTENDS Naturals, Sequences, FiniteSets

\* ------------------------------------------------------------------ bounds
MaxTasks == 2
MaxConns == 2
MaxSessions == 2
MaxCloses == 1

TaskIds == 1..MaxTasks

\* ----------------------------------------------------------------- strings
PathA == <<"/", "a">>
PathB == <<"/", "b">>
PathAJson == <<"/", "a", ".json">>
UriA == <<"nuclide://h1", "/", "a">>

\* the hosts of configurations, and what lookupPreferIpv6 answers
Hosts == {"h1"}
Addresses == {"ip1"}
\* the hosts of the callers that connect to two servers
TwoHosts == {"h1", "h2"}
Titles == {"T"}
\* the cwd values callers pass to findOrCreate and to reconnect
Cwds == {PathA, UriA, PathAJson}
ReconnectCwds == {PathA, PathAJson}
\* the answers of the remote file system's resolveRealPath
RealPaths == {PathA, PathAJson}
\* what parsing a descriptor yields: whether it has a `paths` array, and the
\* array
ProjectContents ==
    {[hasPaths |-> FALSE, paths |-> <<>>]}
    \cup {[hasPaths |-> TRUE, paths |-> p] :
             p \in {<<>>, << <<"a">> >>, << <<"a">>, <<"b">> >>}}

\* how the external calls fail: getOrCreate, the file system service, the
\* descriptor parser, the source-control service
AcquireErrs == {"VersionMismatchError"}
ResolveErrs == {"ENOENT", "Error"}
ParseErrs == {"Error"}
HgErrs == {"Error"}
NoErr == [code |-> "", name |-> "", tag |-> "", at |-> ""]
MkErr(kind, at) ==
    [code |-> IF kind = "ENOENT" THEN "ENOENT" ELSE "",
     name |-> IF kind = "VersionMismatchError" THEN kind ELSE "Error",
     tag |-> "",
     at |-> at]

StartsWith(s, prefix) ==
    /\ Len(prefix) <= Len(s)
    /\ SubSeq(s, 1, Len(prefix)) = prefix

\* nuclideUri.isRemote / getHostname
isRemote(uri) == uri # <<>> /\ uri[1] \in {"nuclide://h1", "nuclide://ip1"}
getHostname(uri) == IF uri[1] = "nuclide://h1" THEN "h1" ELSE "ip1"

\* nuclideUri.extname: the extension of the last path segment
extname(filepath) ==
    IF Len(filepath) >= 2
       /\ filepath[Len(filepath)] \in {".json", ".cson", ".txt"}
       /\ filepath[Len(filepath) - 1] # "/"
    THEN filepath[Len(filepath)]
    ELSE ""

hasAtomProjectFormat(filepath) ==
    LET ext == extname(filepath) IN ext = ".json" \/ ext = ".cson"

LastSlash(s) ==
    LET at == {i \in 1..Len(s) : s[i] = "/"}
    IN  IF at = {} THEN 0 ELSE CHOOSE i \in at : \A j \in at : j <= i

\* nuclideUri.dirname
dirname(s) ==
    LET i == LastSlash(s)
    IN  IF i = 0 THEN <<".">> ELSE IF i = 1 THEN <<"/">> ELSE SubSeq(s, 1, i - 1)

\* nuclideUri.resolve(dir, path)
resolve(dir, path) ==
    IF path # <<>> /\ path[1] = "/" THEN path
    ELSE IF path = <<>> THEN dir
    ELSE IF dir = <<"/">> THEN dir \o path
    ELSE dir \o <<"/">> \o path

Range(s) == {s[i] : i \in 1..Len(s)}

RECURSIVE Without(_, _)
Without(s, x) ==
    IF s = <<>> THEN <<>>
    ELSE IF Head(s) = x THEN Without(Tail(s), x)
    ELSE <<Head(s)>> \o Without(Tail(s), x)

\* ------------------------------------------------------------------- state
VARIABLES
    sessions,   \* the server sessions ever established, by session id
    conns,      \* the RemoteConnection objects ever constructed, by id
    tasks,      \* the asynchronous findOrCreate / reconnect calls, numbered
                \* in the order they are made
    closes      \* how many times a caller invoked close

vars == <<sessions, conns, tasks, closes>>

\* results of an asynchronous call: a connection, null, undefined or a throw
NoOutcome == [kind |-> "none", conn |-> 0, err |-> NoErr]
Returned(c) == [kind |-> "conn", conn |-> c, err |-> NoErr]
Null == [kind |-> "null", conn |-> 0, err |-> NoErr]
Undefined == [kind |-> "undefined", conn |-> 0, err |-> NoErr]
Thrown(e) == [kind |-> "throw", conn |-> 0, err |-> e]

\* the parsed descriptor of a call; parsed is FALSE when none was parsed
NoProject == [parsed |-> FALSE, hasPaths |-> FALSE, paths |-> <<>>]
Parsed(projectContents) ==
    [parsed |-> TRUE, hasPaths |-> projectContents.hasPaths,
     paths |-> projectContents.paths]

\* a call: its arguments (host, cwd, title), its locals while it runs, and
\* what it did (foc: the findOrCreate calls that settled; saved: the
\* _createConnectionBySavedConfig calls that settled)
IdleTask ==
    [op |-> "none", pc |-> "idle", host |-> "", cwd |-> <<>>, title |-> "",
     key |-> "", confHost |-> "", attempt |-> 0, session |-> 0, realPath |-> <<>>,
     project |-> NoProject, created |-> <<>>, result |-> NoOutcome, foc |-> <<>>, saved |-> <<>>,
     lookups |-> 0]

Init ==
    /\ sessions = <<>>
    /\ conns = <<>>
    /\ tasks = [t \in TaskIds |-> IdleTask]
    /\ closes = 0

\* ------------------------------------------- the session provider (§2, §4.3)
\* ServerConnection.getByHostname: the live session of a host, 0 when none
SessionByHostname(ss, hostname) ==
    LET live == {i \in DOMAIN ss : ss[i].host = hostname /\ ~ss[i].closed}
    IN  IF live = {} THEN 0 ELSE CHOOSE i \in live : TRUE

\* ServerConnection.getConnections
getConnections(ss, s) == ss[s].conns

\* ServerConnection.addConnection: register(connection)
addConnection(ss, s, c) == [ss EXCEPT ![s].conns = Append(@, c)]

\* ServerConnection.close
closeSession(ss, s) ==
    [ss EXCEPT ![s].closed = TRUE, ![s].closeCalls = @ + 1]

\* ServerConnection.removeConnection: unregister (a no-op when absent), then
\* close the session when its attachment count reached zero and shutdownIfLast
\* or the always-shutdown flag is set. A detachment error is raised after the
\* unregistration and leaves the session open. env is what the call meets:
\* env.always, the always-shutdown flag as its setter left it, and
\* env.detachFails, whether the detachment raises.
removeConnection(ss, s, c, shutdownIfLast, env) ==
    LET un == [ss EXCEPT ![s].conns = Without(@, c)]
    IN  IF ~env.detachFails /\ un[s].conns = <<>>
           /\ (shutdownIfLast \/ env.always)
        THEN closeSession(un, s)
        ELSE un

\* --------------------------------------------------------- registry lookup
getByHostname(ss, hostname) ==
    LET server == SessionByHostname(ss, hostname)
    IN  IF server = 0 THEN <<>> ELSE getConnections(ss, server)

getByHostnameAndPathLast(ss, cs, hostname, path) ==
    LET all == getByHostname(ss, hostname)
        hit == {i \in 1..Len(all) : StartsWith(path, cs[all[i]].cwd)}
    IN  IF hit = {} THEN 0 ELSE all[CHOOSE i \in hit : \A j \in hit : j <= i]

\* 0 stands for the `undefined` of an empty filter result
getByHostnameAndPath(ss, cs, hostname, path) ==
    LET all == getByHostname(ss, hostname)
        hit == {i \in 1..Len(all) : StartsWith(path, cs[all[i]].cwd)}
    IN  IF hit = {} THEN 0 ELSE all[CHOOSE i \in hit : \A j \in hit : i <= j]

Registered(c) == c \in Range(sessions[conns[c].session].conns)

\* ------------------------------------------------- connection lifecycle
\* constructor
NewConnection(s, cwd, displayTitle, t) ==
    [cwd |-> cwd, session |-> s, title |-> displayTitle, task |-> t,
     initPc |-> "new", initErr |-> NoErr, added |-> 0, removed |-> 0,
     closeArgs |-> <<>>, pending |-> 0, watch |-> "unstarted",
     held |-> FALSE, handler |-> "idle", warnings |-> <<>>, errorLogs |-> 0]

\* watch is the state of the subscription to the watch stream: "unstarted",
\* "live", "disposed" (unsubscribed), "errored" or "ended" (the stream
\* terminated); held tells whether this._subscriptions took the subscription.
\* handler is the position of the asynchronous error callback, warnings the
\* atom.notifications.addWarning calls and errorLogs the logger.error calls.

\* this._subscriptions is disposed by close, and by nothing else
disposed(conn) == conn.closeArgs # <<>>
\* the close calls on a connection that ended in a rejection
rejected(conn) == Len(conn.closeArgs) - conn.pending - conn.removed

\* close, up to its await: dispose the subscriptions and call
\* removeConnection. st is the pair of the session table and the connections.
closeBegin(st, c, shutdownIfLast, env) ==
    [ss |-> removeConnection(st.ss, st.cs[c].session, c, shutdownIfLast, env),
     cs |-> [st.cs EXCEPT
               ![c].closeArgs = Append(@, shutdownIfLast),
               ![c].watch = IF @ = "live" /\ st.cs[c].held THEN "disposed"
                            ELSE @,
               ![c].pending = IF env.detachFails THEN @ ELSE @ + 1]]

\* close, after its await: the did-close notification
closeEnd(cs, c) ==
    [cs EXCEPT ![c].pending = @ - 1, ![c].removed = @ + 1]

initializeNoAttach(st, c) ==
    [st EXCEPT !.cs[c].initPc = "hg"]

\* _initialize, up to its await: attach to the session, start the
\* source-control lookup
initializeAttach(st, c) ==
    [ss |-> addConnection(st.ss, st.cs[c].session, c),
     cs |-> [st.cs EXCEPT ![c].initPc = "hg"]]

initializeCatchNoClose(st, c, e, env) ==
    [st EXCEPT !.cs[c].initPc = "failed", !.cs[c].initErr = e]

RECURSIVE closeEach(_, _, _, _)
closeEach(st, cset, shutdownIfLast, env) ==
    IF cset = {} THEN st
    ELSE LET c == CHOOSE x \in cset : TRUE
         IN  closeEach(closeBegin(st, c, shutdownIfLast, env), cset \ {c},
                       shutdownIfLast, env)

initializeCatchClosesSiblings(st, c, e, env) ==
    LET mates == {d \in DOMAIN st.cs : st.cs[d].task = st.cs[c].task}
        closing == closeEach(st, mates, FALSE, env)
    IN  [closing EXCEPT !.cs[c].initPc = "failed", !.cs[c].initErr = e]

\* _initialize, the catch block
initializeCatch(st, c, e, env) ==
    LET closing == closeBegin(st, c, FALSE, env)
    IN  [closing EXCEPT !.cs[c].initPc = "failed", !.cs[c].initErr = e]

\* _initialize after the lookup resolved: the did-add notification, then
\* _watchRootProjectDirectory, which subscribes to the watch stream and hands
\* the subscription to this._subscriptions. When close has already disposed
\* this._subscriptions, what UniversalDisposable.add does with the new
\* subscription is left open: it throws and leaves the subscription alone,
\* or it ignores the subscription ("live"), or it disposes it at once
\* ("dropped"). A disposed this._subscriptions disposes nothing later.
initializeResume(st, c, addOutcome, env) ==
    LET emitted == [st EXCEPT !.cs[c].added = @ + 1]
        subscribed == [emitted EXCEPT !.cs[c].watch = "live"]
    IN  IF ~disposed(st.cs[c])
        THEN [subscribed EXCEPT !.cs[c].initPc = "done", !.cs[c].held = TRUE]
        ELSE IF addOutcome = "throws"
        THEN initializeCatch(subscribed, c, MkErr("Error", "watch"), env)
        ELSE [subscribed EXCEPT
                !.cs[c].initPc = "done",
                !.cs[c].watch = IF addOutcome = "live" THEN "live"
                                ELSE "disposed"]

\* ------------------------------------------------------------ findOrCreate
titleForAll(i, displayTitle) == displayTitle

\* the display title of the i-th connection of a call (i === 0 in the source)
titleFor(i, displayTitle) == IF i = 1 THEN displayTitle ELSE ""

\* the directories.map of findOrCreate: construct and initialize, in order
RECURSIVE createAll(_, _, _, _, _, _)
createAll(st, s, directories, i, displayTitle, t) ==
    IF i > Len(directories) THEN st
    ELSE LET c == Len(st.cs) + 1
             made == [ss |-> st.ss,
                      cs |-> Append(st.cs,
                                    NewConnection(s, directories[i],
                                                  titleFor(i, displayTitle), t))]
         IN  createAll(initializeAttach(made, c), s, directories, i + 1,
                       displayTitle, t)

\* the directories of a parsed descriptor
projectDirectories(realPath, projectContents) ==
    IF projectContents.hasPaths
    THEN [i \in 1..Len(projectContents.paths) |->
            resolve(dirname(realPath), projectContents.paths[i])]
    ELSE <<dirname(realPath)>>

cleanupNever(ss, s) == ss

\* the catch block of findOrCreate
cleanupIfUnused(ss, s) ==
    IF Len(getConnections(ss, s)) = 0 THEN closeSession(ss, s) ELSE ss

existingForNone(ss, cs, cwd, realPath) == 0

\* the collision check of findOrCreate: the existing connection, or 0
existingFor(ss, cs, cwd, realPath) ==
    IF realPath # cwd /\ isRemote(cwd)
    THEN getByHostnameAndPath(ss, cs, getHostname(cwd), realPath)
    ELSE 0

\* ---------------------------------------------------------------- reconnect
savedConfigSwallowsAll(outcome) ==
    IF outcome.kind = "throw" THEN Null ELSE outcome

\* _createConnectionBySavedConfig: what it makes of findOrCreate's outcome
savedConfigResult(outcome) ==
    IF outcome.kind = "throw"
    THEN IF outcome.err.code = "ENOENT"
         THEN Thrown([outcome.err EXCEPT !.tag = "DIRECTORY_NOT_FOUND"])
         ELSE Null
    ELSE outcome

\* reconnect settles; the locals of the attempts are gone
reconnectReturn(tk, out) ==
    [tk EXCEPT !.pc = "done", !.result = out, !.key = "", !.confHost = "",
               !.session = 0, !.realPath = <<>>, !.project = NoProject,
               !.created = <<>>]

\* reconnect, after an attempt's _createConnectionBySavedConfig settled.
\* tk.result holds the local `connection` while the call is running.
reconnectContinue(tk, out) ==
    IF tk.attempt = 1
    THEN IF out.kind \in {"null", "undefined"}
         THEN [tk EXCEPT !.pc = "lookup", !.result = out]
         ELSE reconnectReturn(tk, out)
    ELSE IF out.kind = "throw"
         THEN reconnectReturn(tk, tk.result)
         ELSE reconnectReturn(tk, out)

afterSavedConfig(tk, hadConfig, factory) ==
    LET out == IF hadConfig THEN savedConfigResult(factory) ELSE Null
        logged == [tk EXCEPT !.saved = Append(@, [key |-> tk.key,
                                                   hadConfig |-> hadConfig,
                                                   factory |-> factory,
                                                   out |-> out])]
    IN  reconnectContinue(logged, out)

\* findOrCreate settles with `outcome`; who awaits it continues
focReturn(tk, outcome, stage) ==
    LET logged == [tk EXCEPT !.foc = Append(@, [out |-> outcome,
                                                 stage |-> stage,
                                                 session |-> tk.session])]
    IN  IF tk.op = "findOrCreate"
        THEN [logged EXCEPT !.pc = "done", !.result = outcome, !.cwd = <<>>]
        ELSE afterSavedConfig(logged, TRUE, outcome)

\* ------------------------------------------------------------------ actions
AddOutcomes == {"throws", "live", "dropped"}
\* what a removeConnection call meets
Envs == [always : BOOLEAN, detachFails : BOOLEAN]
Calm == [always |-> FALSE, detachFails |-> FALSE]

\* ServerConnection.getOrCreate: the live session of the host, or a new one
getOrCreate(ss, host) ==
    IF SessionByHostname(ss, host) # 0 THEN ss
    ELSE Append(ss, [host |-> host, conns |-> <<>>, closed |-> FALSE,
                     closeCalls |-> 0])

\* findOrCreate(config) is called: it awaits ServerConnection.getOrCreate
StartFindOrCreate(t, host, cwd, displayTitle) ==
    /\ tasks[t].pc = "idle"
    /\ \A u \in 1..(t - 1) : tasks[u].pc # "idle"
    /\ tasks' = [tasks EXCEPT ![t] =
                   [IdleTask EXCEPT !.op = "findOrCreate", !.pc = "acquire",
                                    !.host = host, !.confHost = host,
                                    !.cwd = cwd, !.title = displayTitle]]
    /\ UNCHANGED <<sessions, conns, closes>>

\* getOrCreate resolves; findOrCreate calls resolveRealPath and awaits it
AcquireOk(t) ==
    /\ tasks[t].pc = "acquire"
    /\ LET host == tasks[t].confHost
       IN  /\ SessionByHostname(sessions, host) = 0 => Len(sessions) < MaxSessions
           /\ sessions' = getOrCreate(sessions, host)
           /\ tasks' = [tasks EXCEPT
                          ![t].pc = "resolve",
                          ![t].session = SessionByHostname(sessions', host)]
    /\ UNCHANGED <<conns, closes>>

\* getOrCreate rejects: no session was acquired
AcquireFail(t, kind) ==
    /\ tasks[t].pc = "acquire"
    /\ tasks' = [tasks EXCEPT
                   ![t] = focReturn(@, Thrown(MkErr(kind, "acquire")), "acquire")]
    /\ UNCHANGED <<sessions, conns, closes>>

\* findOrCreate fails inside its try block
FailInTry(t, e, stage) ==
    /\ sessions' = cleanupIfUnused(sessions, tasks[t].session)
    /\ tasks' = [tasks EXCEPT ![t] = focReturn(@, Thrown(e), stage)]
    /\ UNCHANGED <<conns, closes>>

\* the end of findOrCreate: one connection per directory, each run up to the
\* await of its _initialize, then the await of Promise.all
OpenDirectories(t, projectContents, directories) ==
    LET first == Len(conns) + 1
        st == createAll([ss |-> sessions, cs |-> conns], tasks[t].session,
                        directories, 1, tasks[t].title, t)
        tk == [tasks[t] EXCEPT !.project = projectContents,
                               !.created = [i \in 1..Len(directories)
                                              |-> first + i - 1]]
    IN  /\ Len(conns) + Len(directories) <= MaxConns
        /\ sessions' = st.ss
        /\ conns' = st.cs
        /\ tasks' = [tasks EXCEPT ![t] =
                       IF directories = <<>>
                       THEN focReturn(tk, Undefined, "created")
                       ELSE [tk EXCEPT !.pc = "init"]]
        /\ UNCHANGED closes

\* the branch of findOrCreate for a real path that is no project file
NotProjectFile(t, realPath) ==
    LET existingConnection == existingFor(sessions, conns, tasks[t].cwd, realPath)
    IN  IF existingConnection # 0
        THEN /\ tasks' = [tasks EXCEPT ![t] =
                            focReturn(@, Returned(existingConnection), "existing")]
             /\ UNCHANGED <<sessions, conns, closes>>
        ELSE OpenDirectories(t, NoProject, <<realPath>>)

\* resolveRealPath resolves
ResolveOk(t, realPath) ==
    /\ tasks[t].pc = "resolve"
    /\ IF hasAtomProjectFormat(realPath)
       THEN /\ tasks' = [tasks EXCEPT ![t].pc = "read", ![t].realPath = realPath]
            /\ UNCHANGED <<sessions, conns, closes>>
       ELSE NotProjectFile(t, realPath)

\* resolveRealPath rejects
ResolveFail(t, kind) ==
    /\ tasks[t].pc = "resolve"
    /\ FailInTry(t, MkErr(kind, "resolve"), "resolve")

\* readFile rejects: the contents are null, the path is opened as a directory
ReadFail(t) ==
    /\ tasks[t].pc = "read"
    /\ NotProjectFile(t, tasks[t].realPath)

\* readFile resolves and the descriptor parses. atom.project.replace only
\* rewrites the editor's project and touches no state of this module.
ReadOk(t, projectContents) ==
    /\ tasks[t].pc = "read"
    /\ OpenDirectories(t, Parsed(projectContents),
                       projectDirectories(tasks[t].realPath, projectContents))

\* readFile resolves and parseProject throws
ParseFail(t, kind) ==
    /\ tasks[t].pc = "read"
    /\ FailInTry(t, MkErr(kind, "parse"), "parse")

\* Promise.all over the _initialize calls of task t, after connection c
\* settled: it rejects with the first rejection, resolves when all resolved
afterInitialize(tk, cs, c) ==
    IF tk.pc = "init" /\ c \in Range(tk.created)
    THEN IF cs[c].initPc = "failed"
         THEN focReturn(tk, Thrown(cs[c].initErr), "init")
         ELSE IF \A d \in Range(tk.created) : cs[d].initPc = "done"
         THEN focReturn(tk, Returned(tk.created[1]), "created")
         ELSE tk
    ELSE tk

\* the source-control lookup of connection c resolves
HgResolve(c, addOutcome, env) ==
    /\ c \in DOMAIN conns
    /\ conns[c].initPc = "hg"
    /\ ~disposed(conns[c]) => addOutcome = "live"
    /\ addOutcome # "throws" => env = Calm
    /\ LET st == initializeResume([ss |-> sessions, cs |-> conns], c,
                                  addOutcome, env)
       IN  /\ sessions' = st.ss
           /\ conns' = st.cs
           /\ tasks' = [tasks EXCEPT ![conns[c].task] =
                          afterInitialize(@, st.cs, c)]
    /\ UNCHANGED closes

\* the source-control lookup of connection c rejects
HgReject(c, kind, env) ==
    /\ c \in DOMAIN conns
    /\ conns[c].initPc = "hg"
    /\ LET st == initializeCatch([ss |-> sessions, cs |-> conns], c,
                                 MkErr(kind, "hg"), env)
       IN  /\ sessions' = st.ss
           /\ conns' = st.cs
           /\ tasks' = [tasks EXCEPT ![conns[c].task] =
                          afterInitialize(@, st.cs, c)]
    /\ UNCHANGED closes

\* a caller invokes close(shutdownIfLast) on a connection
Close(c, shutdownIfLast, env) ==
    /\ c \in DOMAIN conns
    /\ closes < MaxCloses
    /\ closes' = closes + 1
    /\ LET st == closeBegin([ss |-> sessions, cs |-> conns], c,
                            shutdownIfLast, env)
       IN  /\ sessions' = st.ss
           /\ conns' = st.cs
    /\ UNCHANGED tasks

\* removeConnection resolved: close goes on to its last statement
CloseEmit(c) ==
    /\ c \in DOMAIN conns
    /\ conns[c].pending > 0
    /\ conns' = closeEnd(conns, c)
    /\ UNCHANGED <<sessions, tasks, closes>>

\* ------------------------------------------------------- the watch stream
\* what findNearestAncestorNamed('.watchmanconfig') does
AncestorOutcomes == {"found", "null", "rejects"}

\* the warning of the error callback: the network-filesystem one, or the
\* watcher one with the error as detail and, when no .watchmanconfig was
\* found, the workaround
nfsWarning == [kind |-> "nfs", dismissable |-> TRUE, detail |-> FALSE,
               workaround |-> FALSE]
watchmanWarning(watchmanConfig) ==
    [kind |-> "watchman", dismissable |-> TRUE, detail |-> TRUE,
     workaround |-> (watchmanConfig # "found")]

WatchErrorFatal(c) ==
    /\ c \in DOMAIN conns
    /\ conns[c].watch = "live"
    /\ LET st == initializeCatch([ss |-> sessions, cs |-> conns], c,
                                 MkErr("Error", "watch"), Calm)
       IN  /\ sessions' = st.ss
           /\ conns' = [st.cs EXCEPT ![c].watch = "errored",
                                     ![c].handler = "isNfs"]
    /\ UNCHANGED <<tasks, closes>>

\* the watch stream of connection c errors: the error callback runs up to its
\* await of isNfs
WatchError(c) ==
    /\ c \in DOMAIN conns
    /\ conns[c].watch = "live"
    /\ conns' = [conns EXCEPT ![c].watch = "errored", ![c].handler = "isNfs"]
    /\ UNCHANGED <<sessions, tasks, closes>>

\* isNfs resolves: the warning now, or the await of findNearestAncestorNamed
IsNfsResolve(c, nfs) ==
    /\ c \in DOMAIN conns
    /\ conns[c].handler = "isNfs"
    /\ conns' = IF nfs
                THEN [conns EXCEPT ![c].handler = "done",
                                   ![c].warnings = Append(@, nfsWarning)]
                ELSE [conns EXCEPT ![c].handler = "ancestor"]
    /\ UNCHANGED <<sessions, tasks, closes>>

\* isNfs rejects: the callback's promise rejects, nothing handles it
IsNfsReject(c) ==
    /\ c \in DOMAIN conns
    /\ conns[c].handler = "isNfs"
    /\ conns' = [conns EXCEPT ![c].handler = "rejected"]
    /\ UNCHANGED <<sessions, tasks, closes>>

\* findNearestAncestorNamed settles (a rejection is caught and reads as
\* null): logger.error, then the warning
AncestorSettle(c, watchmanConfig) ==
    /\ c \in DOMAIN conns
    /\ conns[c].handler = "ancestor"
    /\ conns' = [conns EXCEPT
                   ![c].handler = "done",
                   ![c].errorLogs = @ + 1,
                   ![c].warnings = Append(@, watchmanWarning(watchmanConfig))]
    /\ UNCHANGED <<sessions, tasks, closes>>

\* the watch stream of connection c ends: logger.info
WatchEnd(c) ==
    /\ c \in DOMAIN conns
    /\ conns[c].watch = "live"
    /\ conns' = [conns EXCEPT ![c].watch = "ended"]
    /\ UNCHANGED <<sessions, tasks, closes>>

reconnectExistingNone(ss, cs, host, cwd) == 0

\* the first statements of reconnect: the live connection covering cwd, or 0
reconnectExisting(ss, cs, host, cwd) ==
    IF ~hasAtomProjectFormat(cwd)
    THEN getByHostnameAndPath(ss, cs, host, cwd)
    ELSE 0

\* reconnect(host, cwd, displayTitle) is called
StartReconnect(t, host, cwd, displayTitle) ==
    /\ tasks[t].pc = "idle"
    /\ \A u \in 1..(t - 1) : tasks[u].pc # "idle"
    /\ LET connection == reconnectExisting(sessions, conns, host, cwd)
           called == [IdleTask EXCEPT !.op = "reconnect", !.host = host,
                                      !.cwd = cwd, !.title = displayTitle]
       IN  tasks' = [tasks EXCEPT ![t] =
                       IF connection # 0
                       THEN [called EXCEPT !.pc = "done",
                                           !.result = Returned(connection)]
                       ELSE [called EXCEPT !.pc = "config", !.attempt = 1,
                                           !.key = host, !.lookups = 1]]
    /\ UNCHANGED <<sessions, conns, closes>>

\* getConnectionConfig resolves with no saved configuration
SavedConfigAbsent(t) ==
    /\ tasks[t].pc = "config"
    /\ tasks' = [tasks EXCEPT ![t] = afterSavedConfig(@, FALSE, NoOutcome)]
    /\ UNCHANGED <<sessions, conns, closes>>

\* getConnectionConfig resolves with a saved configuration: findOrCreate
SavedConfigFound(t, savedHost) ==
    /\ tasks[t].pc = "config"
    /\ tasks' = [tasks EXCEPT ![t].pc = "acquire", ![t].confHost = savedHost,
                              ![t].session = 0, ![t].created = <<>>,
                              ![t].realPath = <<>>, ![t].project = NoProject]
    /\ UNCHANGED <<sessions, conns, closes>>

\* lookupPreferIpv6 resolves: the second attempt, keyed by the address
LookupOk(t, address) ==
    /\ tasks[t].pc = "lookup"
    /\ tasks' = [tasks EXCEPT ![t].pc = "config", ![t].attempt = 2,
                              ![t].key = address, ![t].lookups = @ + 1]
    /\ UNCHANGED <<sessions, conns, closes>>

LookupFailRejects(t) ==
    /\ tasks[t].pc = "lookup"
    /\ tasks' = [tasks EXCEPT ![t] =
                   reconnectReturn(@, Thrown(MkErr("Error", "lookup")))]
    /\ UNCHANGED <<sessions, conns, closes>>

\* lookupPreferIpv6 rejects: swallowed
LookupFail(t) ==
    /\ tasks[t].pc = "lookup"
    /\ tasks' = [tasks EXCEPT ![t] = reconnectReturn(@, @.result)]
    /\ UNCHANGED <<sessions, conns, closes>>

\* the factory and the lifecycle of the connections it makes
Lifecycle ==
    \/ \E t \in TaskIds : AcquireOk(t)
    \/ \E t \in TaskIds, k \in AcquireErrs : AcquireFail(t, k)
    \/ \E t \in TaskIds, r \in RealPaths : ResolveOk(t, r)
    \/ \E t \in TaskIds, k \in ResolveErrs : ResolveFail(t, k)
    \/ \E t \in TaskIds : ReadFail(t)
    \/ \E t \in TaskIds, p \in ProjectContents : ReadOk(t, p)
    \/ \E t \in TaskIds, k \in ParseErrs : ParseFail(t, k)
    \/ \E c \in 1..MaxConns, o \in AddOutcomes, e \in Envs : HgResolve(c, o, e)
    \/ \E c \in 1..MaxConns, k \in HgErrs, e \in Envs : HgReject(c, k, e)
    \/ \E c \in 1..MaxConns : CloseEmit(c)

\* callers that call findOrCreate and close
Next ==
    \/ Lifecycle
    \/ \E t \in TaskIds, h \in Hosts, cwd \in Cwds, d \in Titles :
         StartFindOrCreate(t, h, cwd, d)
    \/ \E c \in 1..MaxConns, s \in BOOLEAN, e \in Envs : Close(c, s, e)

Spec == Init /\ [][Next]_vars

\* callers of which the first calls findOrCreate and the later ones reconnect
NextReconnect ==
    \/ Lifecycle
    \/ \E h \in Hosts, cwd \in Cwds, d \in Titles : StartFindOrCreate(1, h, cwd, d)
    \/ \E t \in TaskIds \ {1}, h \in Hosts, cwd \in ReconnectCwds, d \in Titles :
         StartReconnect(t, h, cwd, d)
    \/ \E t \in TaskIds : SavedConfigAbsent(t)
    \/ \E t \in TaskIds, h \in Hosts : SavedConfigFound(t, h)
    \/ \E t \in TaskIds, a \in Addresses : LookupOk(t, a)
    \/ \E t \in TaskIds : LookupFail(t)

SpecReconnect == Init /\ [][NextReconnect]_vars

\* callers that call findOrCreate for two servers, and close
NextHosts ==
    \/ Lifecycle
    \/ \E t \in TaskIds, h \in TwoHosts, cwd \in {PathA, UriA}, d \in Titles :
         StartFindOrCreate(t, h, cwd, d)
    \/ \E c \in 1..MaxConns, s \in BOOLEAN, e \in Envs : Close(c, s, e)

SpecHosts == Init /\ [][NextHosts]_vars

\* callers that call findOrCreate and close, and the watch streams
NextWatch ==
    \/ Next
    \/ \E c \in 1..MaxConns : WatchError(c)
    \/ \E c \in 1..MaxConns, nfs \in BOOLEAN : IsNfsResolve(c, nfs)
    \/ \E c \in 1..MaxConns : IsNfsReject(c)
    \/ \E c \in 1..MaxConns, w \in AncestorOutcomes : AncestorSettle(c, w)
    \/ \E c \in 1..MaxConns : WatchEnd(c)

SpecWatch == Init /\ [][NextWatch]_vars

\* ------------------------------------------------------------------- claims
Last(seq) == seq[Len(seq)]

\* in this step the findOrCreate call of task t fails, after it acquired a
\* session
FailsNow(t) ==
    /\ Len(tasks'[t].foc) = Len(tasks[t].foc) + 1
    /\ Last(tasks'[t].foc).out.kind = "throw"
    /\ Last(tasks'[t].foc).stage # "acquire"

\* C1: when findOrCreate fails after it acquired its session (real-path
\* resolution, descriptor parsing or the initialize step of a connection it
\* made), that failure closes the session if and only if the session then has
\* no attached connection, and the caller gets the failure as it was raised.
C1_FailureClosesSessionIffUnused ==
    [][\A t \in TaskIds :
         FailsNow(t) =>
           LET s == Last(tasks'[t].foc).session
           IN  /\ (sessions'[s].closeCalls = sessions[s].closeCalls + 1)
                    <=> (sessions'[s].conns = <<>>)
               /\ sessions'[s].conns = <<>> => sessions'[s].closed
               /\ tasks'[t].op = "findOrCreate" =>
                    tasks'[t].result = Last(tasks'[t].foc).out]_vars

\* C2: when findOrCreate fails in real-path resolution or in descriptor
\* parsing while its session has no attached connection, close is called on
\* that session in the step that hands the failure to the caller.
C2_UnusedSessionClosedOnFailure ==
    [][\A t \in TaskIds :
         (/\ FailsNow(t)
          /\ Last(tasks'[t].foc).stage \in {"resolve", "parse"}
          /\ sessions[tasks[t].session].conns = <<>>)
         => LET s == tasks[t].session
            IN  /\ sessions'[s].closeCalls = sessions[s].closeCalls + 1
                /\ sessions'[s].closed]_vars

\* a call failed in resolution or parsing, on a session nothing ever attached
\* to, and the session was closed
C2_Witness ==
    \E t \in TaskIds :
      /\ tasks[t].pc = "done"
      /\ tasks[t].result.kind = "throw"
      /\ tasks[t].foc[1].stage \in {"resolve", "parse"}
      /\ \A c \in DOMAIN conns : conns[c].session # tasks[t].foc[1].session
      /\ sessions[tasks[t].foc[1].session].closed
      /\ sessions[tasks[t].foc[1].session].closeCalls = 1

\* C3: no two registered connections have the same hostname and the same cwd.
C3_NoDuplicateRoot ==
    \A c, d \in DOMAIN conns :
      (/\ c # d
       /\ Registered(c)
       /\ Registered(d)
       /\ sessions[conns[c].session].host = sessions[conns[d].session].host)
      => conns[c].cwd # conns[d].cwd

\* C4: every close call that is over, also one whose detachment raised, has
\* unregistered the connection and emitted one did-close.
C4_CloseAlwaysEmitsRemoved ==
    \A c \in DOMAIN conns :
      /\ conns[c].closeArgs # <<>> => ~Registered(c)
      /\ conns[c].removed = Len(conns[c].closeArgs) - conns[c].pending

\* the registered connections of host h whose cwd is a prefix of path p
Covering(h, p) ==
    {c \in DOMAIN conns :
       /\ Registered(c)
       /\ sessions[conns[c].session].host = h
       /\ ~sessions[conns[c].session].closed
       /\ StartsWith(p, conns[c].cwd)}

\* in this step reconnect is called by task t
ReconnectCalledNow(t) == tasks[t].pc = "idle" /\ tasks'[t].op = "reconnect"

\* the call settles at once with a covering connection and touches nothing
ReturnsCovering(t) ==
    /\ tasks'[t].pc = "done"
    /\ tasks'[t].result.kind = "conn"
    /\ tasks'[t].result.conn \in Covering(tasks'[t].host, tasks'[t].cwd)
    /\ tasks'[t].lookups = 0
    /\ tasks'[t].saved = <<>>
    /\ tasks'[t].foc = <<>>
    /\ sessions' = sessions
    /\ conns' = conns

\* C5, as claimed: reconnect(H, P, title), for any path P covered by a
\* registered connection of host H, returns such a connection and looks up no
\* saved configuration, acquires no session and registers nothing.
C5_ReconnectAnyPathReturnsCovering ==
    [][\A t \in TaskIds :
         (ReconnectCalledNow(t)
          /\ Covering(tasks'[t].host, tasks'[t].cwd) # {})
         => ReturnsCovering(t)]_vars

\* C5, amended: the same for every path P that has no project-descriptor
\* extension (.json, .cson).
C5_ReconnectReturnsCovering ==
    [][\A t \in TaskIds :
         (ReconnectCalledNow(t)
          /\ ~hasAtomProjectFormat(tasks'[t].cwd)
          /\ Covering(tasks'[t].host, tasks'[t].cwd) # {})
         => ReturnsCovering(t)]_vars

\* a reconnect call returned a connection without any saved-config lookup
C5_Witness ==
    \E t \in TaskIds :
      /\ tasks[t].op = "reconnect"
      /\ tasks[t].pc = "done"
      /\ tasks[t].lookups = 0
      /\ tasks[t].result.kind = "conn"

\* C6: when a saved configuration exists and findOrCreate fails,
\* _createConnectionBySavedConfig throws if and only if the failure is ENOENT,
\* and then throws that failure tagged DIRECTORY_NOT_FOUND; on every other
\* failure it returns null.
C6_SavedConfigFailureClassified ==
    \A t \in TaskIds : \A i \in 1..Len(tasks[t].saved) :
      LET call == tasks[t].saved[i]
      IN  (call.hadConfig /\ call.factory.kind = "throw") =>
            /\ (call.out.kind = "throw") <=> (call.factory.err.code = "ENOENT")
            /\ call.out.kind = "throw" =>
                 call.out.err = [call.factory.err EXCEPT
                                   !.tag = "DIRECTORY_NOT_FOUND"]
            /\ call.out.kind # "throw" => call.out = Null

\* one reconnect whose first attempt swallowed a version mismatch and whose
\* second attempt met a missing directory
C6_Witness ==
    \E t \in TaskIds :
      /\ Len(tasks[t].saved) = 2
      /\ tasks[t].saved[1].factory.err.name = "VersionMismatchError"
      /\ tasks[t].saved[1].out = Null
      /\ tasks[t].saved[2].factory.err.code = "ENOENT"
      /\ tasks[t].saved[2].out.kind = "throw"

\* C7: a findOrCreate that parsed a project descriptor made one connection
\* per listed directory, in order, each attached and with the directory
\* resolved against the descriptor's parent directory as cwd (the parent
\* directory itself when there is no list); the first carries the caller's
\* title and the others an empty one; when the call succeeds with at least one
\* directory, every one of them has emitted did-add and the result is the
\* first.
C7_DescriptorExpansion ==
    \A t \in TaskIds :
      LET tk == tasks[t]
          parent == dirname(tk.realPath)
          n == IF tk.project.hasPaths THEN Len(tk.project.paths) ELSE 1
      IN  (tk.op = "findOrCreate" /\ tk.project.parsed) =>
            /\ Len(tk.created) = n
            /\ \A i \in 1..n :
                 LET conn == conns[tk.created[i]]
                 IN  /\ conn.cwd = IF tk.project.hasPaths
                                   THEN resolve(parent, tk.project.paths[i])
                                   ELSE parent
                     /\ conn.title = IF i = 1 THEN tk.title ELSE ""
                     /\ conn.initPc # "new"
                     /\ conn.closeArgs = <<>> => Registered(tk.created[i])
                     /\ \A j \in 1..n : tk.created[i] = tk.created[j] => i = j
            /\ (tk.pc = "done" /\ tk.result.kind # "throw" /\ n > 0) =>
                 /\ tk.result = Returned(tk.created[1])
                 /\ \A i \in 1..n : conns[tk.created[i]].added = 1

\* a call on /a.json with paths ["a", "b"] succeeded
C7_Witness ==
    \E t \in TaskIds :
      /\ tasks[t].pc = "done"
      /\ tasks[t].result.kind = "conn"
      /\ tasks[t].project.parsed
      /\ Len(tasks[t].project.paths) = 2
      /\ conns[tasks[t].created[1]].cwd = PathA
      /\ conns[tasks[t].created[2]].cwd = PathB

\* C8: a connection emits did-add at most once, only after it was attached
\* and its source-control lookup succeeded, and emits did-close at most once
\* and only for a close call that ran to its end.
C8_EventsAtMostOnce ==
    \A c \in DOMAIN conns :
      /\ conns[c].added <= 1
      /\ conns[c].added = 1 =>
           conns[c].initPc \in {"done", "failed"} /\ conns[c].initErr.at # "hg"
      /\ conns[c].removed <= Len(conns[c].closeArgs) - conns[c].pending
      /\ conns[c].removed <= 1

\* C9: a connection whose initialize failed had close(false) invoked on it,
\* is not registered with its session, and failed with the failure of the
\* lookup (or of the later step), not with one of the cleanup.
C9_FailedInitializeUnregisters ==
    \A c \in DOMAIN conns :
      conns[c].initPc = "failed" =>
        /\ FALSE \in Range(conns[c].closeArgs)
        /\ ~Registered(c)
        /\ conns[c].initErr.at \in {"hg", "watch"}

\* the lookup failed and the detachment of the cleanup raised as well
C9_Witness ==
    \E c \in DOMAIN conns :
      /\ conns[c].initPc = "failed"
      /\ conns[c].initErr.at = "hg"
      /\ conns[c].closeArgs = <<FALSE>>
      /\ rejected(conns[c]) = 1

\* C10, as claimed: an attached connection on which no close has completed
\* is registered with its session.
C10_RegisteredUntilCloseCompletes ==
    \A c \in DOMAIN conns :
      (conns[c].initPc # "new" /\ conns[c].removed = 0) => Registered(c)

\* C10, amended: an attached connection on which close has not been invoked
\* is registered with its session.
C10_RegisteredUntilCloseInvoked ==
    \A c \in DOMAIN conns :
      (conns[c].initPc # "new" /\ conns[c].closeArgs = <<>>) => Registered(c)

\* a connection at the suspension point of initialize, next to one that is
\* past it, both registered
C10_Witness ==
    \E c, d \in DOMAIN conns :
      /\ conns[c].initPc = "hg"
      /\ conns[d].initPc = "done"
      /\ Registered(c)
      /\ Registered(d)

\* the paths looked up
LookupPaths == {PathA, PathB, PathAJson, <<"/">>}

ReconnectOver(t) ==
    /\ tasks[t].op = "reconnect"
    /\ tasks[t].pc = "done"
    /\ tasks[t].saved # <<>>

\* null or undefined: what `connection == null` accepts
Nothing(outcome) == outcome.kind \in {"null", "undefined"}

\* C13: when a saved-config attempt of reconnect, the one keyed by the
\* hostname or the one keyed by the address, fails with a missing directory,
\* reconnect fails with that error tagged DIRECTORY_NOT_FOUND; it fails in no
\* other case.
C13_NotFoundOnEitherAttemptFails ==
    \A t \in TaskIds :
      ReconnectOver(t) =>
        /\ \A i \in 1..Len(tasks[t].saved) :
             tasks[t].saved[i].out.kind = "throw" =>
               /\ tasks[t].saved[i].out.err.tag = "DIRECTORY_NOT_FOUND"
               /\ tasks[t].result = tasks[t].saved[i].out
        /\ tasks[t].result.kind = "throw" =>
             \E i \in 1..Len(tasks[t].saved) :
               tasks[t].result = tasks[t].saved[i].out

\* C14: a reconnect that found no live connection attempts the saved
\* configuration keyed by the hostname first (an absent configuration yields
\* null); it resolves the address and attempts the configuration keyed by it
\* only when the first attempt yielded nothing; it returns the first attempt's
\* connection when there is one, otherwise what the second attempt returned,
\* and returns nothing (null or undefined), without failing, when both
\* yielded nothing or the address resolution failed.
C14_ReconnectFallbackOrder ==
    \A t \in TaskIds :
      LET saved == tasks[t].saved
          n == Len(saved)
      IN  tasks[t].op = "reconnect" =>
            /\ n <= 2
            /\ n = tasks[t].lookups - (IF tasks[t].pc \in {"done", "lookup"}
                                       THEN 0 ELSE 1)
            /\ \A i \in 1..n : ~saved[i].hadConfig => saved[i].out = Null
            /\ n >= 1 => saved[1].key = tasks[t].host
            /\ tasks[t].pc = "lookup" => n = 1 /\ Nothing(saved[1].out)
            /\ n = 2 => Nothing(saved[1].out) /\ saved[2].key \in Addresses
            /\ ReconnectOver(t) =>
                 /\ saved[1].out.kind = "conn" =>
                      n = 1 /\ tasks[t].result = saved[1].out
                 /\ (n = 2 /\ saved[2].out.kind # "throw") =>
                      tasks[t].result = saved[2].out
                 /\ (n = 2 /\ Nothing(saved[2].out)) => Nothing(tasks[t].result)
                 /\ (n = 1 /\ Nothing(saved[1].out)) =>
                      tasks[t].result = saved[1].out

\* no configuration under the hostname, one under the address, and reconnect
\* returned the connection of the second attempt
C14_Witness ==
    \E t \in TaskIds :
      /\ ReconnectOver(t)
      /\ Len(tasks[t].saved) = 2
      /\ ~tasks[t].saved[1].hadConfig
      /\ tasks[t].saved[1].key = "h1"
      /\ tasks[t].saved[2].key = "ip1"
      /\ tasks[t].saved[2].out.kind = "conn"
      /\ tasks[t].result = tasks[t].saved[2].out

\* C16: findOrCreate has no suspension point between its lookup of an
\* existing connection for (hostname, real path) and the registration of the
\* connection it makes for that root: in the step that registers the new
\* connection, the lookup on the state the step starts from finds nothing, and
\* the connection is constructed and attached in that one step.
C16_CheckAndRegisterInOneStep ==
    [][\A c \in DOMAIN conns' \ DOMAIN conns :
         LET t == conns'[c].task
             cwd == tasks[t].cwd
             realPath == conns'[c].cwd
         IN  /\ c \in Range(sessions'[conns'[c].session].conns)
             /\ (~tasks'[t].project.parsed /\ realPath # cwd /\ isRemote(cwd)) =>
                  getByHostnameAndPath(sessions, conns, getHostname(cwd),
                                       realPath) = 0]_vars

\* a call with a remote cwd registered its connection, and a concurrent call
\* for the same root found it by the lookup while it was still initializing
C16_Witness ==
    \E c \in DOMAIN conns : \E u \in TaskIds :
      /\ conns[c].initPc = "hg"
      /\ tasks[conns[c].task].cwd = UriA
      /\ ~tasks[conns[c].task].project.parsed
      /\ u # conns[c].task
      /\ tasks[u].pc = "done"
      /\ tasks[u].result = Returned(c)
      /\ Last(tasks[u].foc).stage = "existing"

\* the close calls made so far on the connections 1..i
RECURSIVE CloseCalls(_)
CloseCalls(i) ==
    IF i = 0 THEN 0 ELSE Len(conns[i].closeArgs) + CloseCalls(i - 1)

\* C17: the only close calls are those of callers and one close(false) per
\* connection whose own initialize failed. So when the initialize of one
\* connection of a descriptor fails, a sibling whose own initialize succeeded
\* and that no caller closed stays registered and has emitted did-add, while
\* findOrCreate fails with the failure of the first initialize that failed.
C17_SiblingsUnaffected ==
    /\ CloseCalls(Len(conns)) =
         closes + Cardinality({c \in DOMAIN conns : conns[c].initPc = "failed"})
    /\ \A c \in DOMAIN conns : conns[c].initPc = "failed" => conns[c].closeArgs # <<>>
    /\ \A t \in TaskIds : \A c, d \in Range(tasks[t].created) :
         (/\ tasks[t].op = "findOrCreate"
          /\ c # d
          /\ conns[c].initPc = "failed") =>
           /\ tasks[t].pc = "done"
           /\ tasks[t].result.kind = "throw"
           /\ \E f \in Range(tasks[t].created) :
                /\ conns[f].initPc = "failed"
                /\ tasks[t].result = Thrown(conns[f].initErr)
           /\ (conns[d].initPc = "done" /\ conns[d].closeArgs = <<>>) =>
                Registered(d) /\ conns[d].added = 1
           /\ (conns[d].initPc = "hg" /\ conns[d].closeArgs = <<>>) =>
                Registered(d)

\* of two connections of one descriptor the first failed in its
\* source-control lookup, the second succeeded and no caller closed anything
C17_Witness ==
    \E t \in TaskIds :
      /\ Len(tasks[t].created) = 2
      /\ closes = 0
      /\ conns[tasks[t].created[1]].initPc = "failed"
      /\ conns[tasks[t].created[1]].initErr.at = "hg"
      /\ conns[tasks[t].created[2]].initPc = "done"
      /\ conns[tasks[t].created[2]].added = 1
      /\ Registered(tasks[t].created[2])
      /\ tasks[t].result.kind = "throw"

\* C20: no connection is attached to a session that has been closed.
C20_NoAttachToClosedSession ==
    \A c \in DOMAIN conns :
      Registered(c) => ~sessions[conns[c].session].closed

\* C12: an error of the watch stream, and every step of the callback that
\* handles it, leaves the sessions, the findOrCreate calls and the
\* connection's initialize outcome, close calls and registration as they
\* were; a connection whose watch errored and on which close was never
\* invoked is registered, and its initialize succeeded.
C12_WatchFailureNotFatal ==
    [][\A c \in DOMAIN conns :
         /\ (conns'[c].watch = "errored" /\ conns'[c].closeArgs = <<>>) =>
              /\ c \in Range(sessions'[conns'[c].session].conns)
              /\ conns'[c].initPc = "done"
         /\ (\/ conns[c].watch = "live" /\ conns'[c].watch = "errored"
             \/ conns'[c].handler # conns[c].handler) =>
              /\ sessions' = sessions
              /\ tasks' = tasks
              /\ conns'[c].initPc = conns[c].initPc
              /\ conns'[c].initErr = conns[c].initErr
              /\ conns'[c].closeArgs = conns[c].closeArgs
              /\ conns'[c].removed = conns[c].removed]_vars

\* the watch of a connection errored and its warning was surfaced, after the
\* findOrCreate call returned that connection, which is still registered
C12_Witness ==
    \E c \in DOMAIN conns :
      /\ conns[c].watch = "errored"
      /\ conns[c].handler = "done"
      /\ Len(conns[c].warnings) = 1
      /\ conns[c].initPc = "done"
      /\ Registered(c)
      /\ tasks[conns[c].task].result = Returned(c)

\* C15: a connection is attached in the step that constructs it, before the
\* source-control lookup and every other step of initialize; did-add is
\* emitted only while the connection awaits the lookup, when the lookup
\* succeeds, and at that moment the connection is registered; the watch is
\* started only once did-add has been emitted.
C15_InitializeOrdering ==
    [][\A c \in DOMAIN conns' :
         IF c \notin DOMAIN conns
         THEN /\ c \in Range(sessions'[conns'[c].session].conns)
              /\ conns'[c].initPc = "hg"
              /\ conns'[c].added = 0
              /\ conns'[c].watch = "unstarted"
         ELSE /\ conns'[c].added # conns[c].added =>
                   /\ conns[c].initPc = "hg"
                   /\ conns[c].added = 0
                   /\ conns'[c].initErr.at # "hg"
                   /\ c \in Range(sessions'[conns'[c].session].conns)
              /\ conns'[c].watch # conns[c].watch =>
                   conns'[c].added = 1]_vars

\* C18: a connection on which close has been invoked holds no live watch
\* subscription.
C18_NoLiveWatchAfterClose ==
    \A c \in DOMAIN conns :
      conns[c].closeArgs # <<>> => conns[c].watch # "live"

\* C19: every error of a watch stream takes the watch out of its live state
\* and, once its callback is over, has surfaced exactly one dismissable
\* warning: the network-filesystem one without an error log, or the watcher
\* one with the error logged once; before that, and when the stream ended
\* without an error, no warning is surfaced.
C19_WatchErrorWarnsOnce ==
    \A c \in DOMAIN conns :
      /\ (conns[c].watch = "errored") <=> (conns[c].handler # "idle")
      /\ conns[c].handler \in {"done", "rejected"} =>
           /\ Len(conns[c].warnings) = 1
           /\ conns[c].warnings[1].dismissable
           /\ conns[c].warnings[1].kind = "nfs" => conns[c].errorLogs = 0
           /\ conns[c].warnings[1].kind = "watchman" => conns[c].errorLogs = 1
      /\ conns[c].handler \in {"idle", "isNfs", "ancestor"} =>
           conns[c].warnings = <<>> /\ conns[c].errorLogs = 0

\* in this step a findOrCreate call of task t completes without a failure
SucceedsNow(t) ==
    /\ Len(tasks'[t].foc) = Len(tasks[t].foc) + 1
    /\ Last(tasks'[t].foc).out.kind # "throw"

\* C21: when findOrCreate completes without a failure, the session it
\* acquired is closed or has at least one attached connection.
C21_SuccessLeavesNoIdleSession ==
    [][\A t \in TaskIds :
         SucceedsNow(t) =>
           LET s == Last(tasks'[t].foc).session
           IN  sessions'[s].closed \/ sessions'[s].conns # <<>>]_vars

\* C22: when findOrCreate completes without a failure, its result is a
\* connection, and that connection is registered with its session.
C22_SuccessReturnsRegistered ==
    [][\A t \in TaskIds :
         SucceedsNow(t) =>
           LET out == Last(tasks'[t].foc).out
           IN  /\ out.kind = "conn"
               /\ out.conn \in DOMAIN conns'
               /\ out.conn \in
                    Range(sessions'[conns'[out.conn].session].conns)]_vars

=============================================================================
